---- MODULE Spec2Model ----
(***************************************************************************)
(* Model of weatherbanno.go: the /weather/lat/{lat}/lon/{lon} route of the *)
(* service (chi route pattern, latLonContext middleware, the handler with  *)
(* its upstream call, JSON decoding, the three transformer functions and   *)
(* the JSON response).                                                     *)
(***************************************************************************)
EXTENDS Integers, Sequences, FiniteSets, TLC

VARIABLES
    localOffset,  \* offset (seconds east of UTC) of the process's time.Local
    request,      \* request[r]: the lat and lon path segments of inbound request r
    upstream,     \* upstream[r]: what the provider answers to the call of request r
    pc,           \* pc[r]: where the goroutine serving r stands
    ctx,          \* ctx[r]: the values latLonContext stored in the request context
    resp,         \* resp[r]: the handler's local resp (result of http.Get)
    respParsed,   \* respParsed[r]: the handler's local OpenWeatherOneCallResponse
    report,       \* report[r]: the MyWeatherResponse value handed to json.Marshal
    response,     \* response[r]: what was written to the http.ResponseWriter
    calls,        \* calls[r]: outbound http.Get calls issued for r
    statusWrites, \* statusWrites[r]: response headers (statuses) written for r
    stages,       \* stages[r]: the stages r went through, in order
    logged        \* details given to log.Println by the recover blocks

vars == <<localOffset, request, upstream, pc, ctx, resp, respParsed, report,
          response, calls, statusWrites, stages, logged>>

(***************************************************************************)
(* Bounds of the model.                                                    *)
(***************************************************************************)
MaxSegLen == 3
MaxLen == 2
NumReqs == 2

SeqsUpTo(S, n) == UNION {[1..k -> S] : k \in 0..n}

(***************************************************************************)
(* Path segments are sequences over a small alphabet: the signs, a digit,  *)
(* the dot, a letter, and "B", which stands for a block of 400 digits 7    *)
(* (a run of digits whose value exceeds the largest float64).              *)
(***************************************************************************)
Signs == {"-", "+"}
Digits == {"7", "B"}
Alphabet == Signs \cup Digits \cup {".", "a"}

IsDigits(s) == Len(s) >= 1 /\ \A i \in 1..Len(s) : s[i] \in Digits

DropSign(s) == IF Len(s) >= 1 /\ s[1] \in Signs THEN Tail(s) ELSE s

DotAt(s) == {i \in 1..Len(s) : s[i] = "."}

\* The route's parameter pattern [-+]?[0-9]+(?:\.[0-9]+)? , which chi anchors
\* at both ends and matches against the whole path segment.
MatchesPattern(seg) ==
    LET u == DropSign(seg) IN
    \/ IsDigits(u)
    \/ \E i \in DotAt(u) :
           /\ IsDigits(SubSeq(u, 1, i - 1))
           /\ IsDigits(SubSeq(u, i + 1, Len(u)))

\* strconv.ParseFloat(s, 64) over the alphabet: the syntax error for a text
\* that is no decimal number, the range error for one beyond float64, else the
\* value (sign, all digits, number of fraction digits).
ParseFloat(s) ==
    LET u == DropSign(s)
        dots == DotAt(u)
        neg == Len(s) >= 1 /\ s[1] = "-"
        d == IF dots = {} THEN Len(u) + 1 ELSE CHOOSE i \in dots : TRUE
        int == SubSeq(u, 1, d - 1)
        frac == SubSeq(u, d + 1, Len(u))
        digitsOnly(t) == \A i \in 1..Len(t) : t[i] \in Digits
        wellFormed == /\ Cardinality(dots) <= 1
                      /\ digitsOnly(int) /\ digitsOnly(frac)
                      /\ Len(int) + Len(frac) >= 1
    IN  IF ~wellFormed
        THEN [err |-> "invalid syntax", neg |-> FALSE, digits |-> <<>>, scale |-> 0]
        ELSE IF \E i \in 1..Len(int) : int[i] = "B"
        THEN [err |-> "value out of range", neg |-> neg, digits |-> <<>>, scale |-> 0]
        ELSE [err |-> "", neg |-> neg, digits |-> int \o frac, scale |-> Len(frac)]

(***************************************************************************)
(* time.Unix(sec, 0).Format(time.RFC3339): the civil date and clock of the *)
(* instant in the zone time.Local, then "Z" for a zero offset and +hh:mm   *)
(* or -hh:mm otherwise.                                                    *)
(***************************************************************************)
Pad2(n) == IF n < 10 THEN "0" \o ToString(n) ELSE ToString(n)

Pad4(n) == IF n < 10 THEN "000" \o ToString(n)
           ELSE IF n < 100 THEN "00" \o ToString(n)
           ELSE IF n < 1000 THEN "0" \o ToString(n)
           ELSE ToString(n)

CivilDate(days) ==
    LET z == days + 719468
        era == z \div 146097
        doe == z - era * 146097
        yoe == (doe - doe \div 1460 + doe \div 36524 - doe \div 146096) \div 365
        doy == doe - (365 * yoe + yoe \div 4 - yoe \div 100)
        mp == (5 * doy + 2) \div 153
        day == doy - (153 * mp + 2) \div 5 + 1
        month == IF mp < 10 THEN mp + 3 ELSE mp - 9
        year == yoe + era * 400 + (IF month <= 2 THEN 1 ELSE 0)
    IN  [year |-> year, month |-> month, day |-> day]

ZoneSuffix(offset) ==
    LET a == IF offset < 0 THEN 0 - offset ELSE offset IN
    IF offset = 0 THEN "Z"
    ELSE (IF offset < 0 THEN "-" ELSE "+")
         \o Pad2(a \div 3600) \o ":" \o Pad2((a % 3600) \div 60)

\* The layout "2006-01-02T15:04:05Z07:00" applied to wall-clock second t of a
\* zone that lies offset seconds east of UTC.
Layout(t, offset) ==
    LET date == CivilDate(t \div 86400)
        clock == t % 86400
    IN  Pad4(date.year) \o "-" \o Pad2(date.month) \o "-" \o Pad2(date.day)
        \o "T" \o Pad2(clock \div 3600) \o ":" \o Pad2((clock % 3600) \div 60)
        \o ":" \o Pad2(clock % 60) \o ZoneSuffix(offset)

\* Variant: the instant rendered in UTC, as time.Unix(sec, 0).UTC() would be.
FormatRFC3339_UTC(sec, offset) == Layout(sec, 0)

FormatRFC3339(sec, offset) == Layout(sec + offset, offset)

(***************************************************************************)
(* The upstream JSON body and json.Unmarshal into                          *)
(* OpenWeatherOneCallResponse. A Go slice is [isNil, elems]. A float32 is  *)
(* held in units of 2^-17 K, a quarter of the float32 spacing between 256  *)
(* and 512, so a float32 of that range is a multiple of 4.                 *)
(***************************************************************************)
KelvinUnit == 2 ^ 17

NilSlice == [isNil |-> TRUE, elems |-> <<>>]

Slice(elems) == [isNil |-> FALSE, elems |-> elems]

Absent == [present |-> FALSE, val |-> 0]

Present(v) == [present |-> TRUE, val |-> v]

AbsentList == [present |-> FALSE, elems |-> <<>>]

PresentList(elems) == [present |-> TRUE, elems |-> elems]

\* strconv.ParseFloat(s, 32) of the JSON number: the nearest float32, ties to
\* the even mantissa.
RoundFloat32(raw) ==
    LET q == raw \div 4
        rem == raw % 4
    IN  IF rem < 2 THEN 4 * q
        ELSE IF rem > 2 THEN 4 * (q + 1)
        ELSE IF q % 2 = 0 THEN 4 * q ELSE 4 * (q + 1)

\* OpenWeatherOneCallAlert decoded from its JSON object by the field tags.
DecodeAlert(a) ==
    [SenderName |-> a.sender_name, Event |-> a.event, Description |-> a.description]

DecodeCondition(c) == [Main |-> c.main]

\* A JSON array decoded into a slice; an absent field leaves the nil slice.
DecodeAlerts(list) ==
    IF list.present
    THEN Slice([i \in 1..Len(list.elems) |-> DecodeAlert(list.elems[i])])
    ELSE NilSlice

DecodeConditions(list) ==
    IF list.present
    THEN Slice([i \in 1..Len(list.elems) |-> DecodeCondition(list.elems[i])])
    ELSE NilSlice

ZeroResponse ==
    [Current |-> [DT |-> 0, FeelsLike |-> 0, Weather |-> NilSlice], Alerts |-> NilSlice]

\* Variant: a decoder that refuses unknown fields and requires every field.
Unmarshal_Strict(body) ==
    IF body.kind = "garbage"
    THEN [err |-> "invalid character '<' looking for beginning of value",
          val |-> ZeroResponse]
    ELSE IF body.kind = "mistyped"
    THEN [err |-> "json: cannot unmarshal string into Go struct field",
          val |-> ZeroResponse]
    ELSE IF body.extra
    THEN [err |-> "json: unknown field", val |-> ZeroResponse]
    ELSE IF ~(body.dt.present /\ body.feels_like.present
              /\ body.weather.present /\ body.alerts.present)
    THEN [err |-> "json: missing field", val |-> ZeroResponse]
    ELSE [err |-> "",
          val |-> [Current |-> [DT |-> body.dt.val,
                                FeelsLike |-> RoundFloat32(body.feels_like.val),
                                Weather |-> DecodeConditions(body.weather)],
                   Alerts |-> DecodeAlerts(body.alerts)]]

\* json.Unmarshal(respBody, &respParsed): a syntax error for a body that is
\* no JSON, a type error for a known field of the wrong JSON type; unknown
\* fields are skipped and absent fields keep the zero value.
Unmarshal(body) ==
    IF body.kind = "garbage"
    THEN [err |-> "invalid character '<' looking for beginning of value",
          val |-> ZeroResponse]
    ELSE IF body.kind = "mistyped"
    THEN [err |-> "json: cannot unmarshal string into Go struct field",
          val |-> ZeroResponse]
    ELSE [err |-> "",
          val |-> [Current |->
                       [DT |-> IF body.dt.present THEN body.dt.val ELSE 0,
                        FeelsLike |-> IF body.feels_like.present
                                      THEN RoundFloat32(body.feels_like.val)
                                      ELSE 0,
                        Weather |-> DecodeConditions(body.weather)],
                   Alerts |-> DecodeAlerts(body.alerts)]]

(***************************************************************************)
(* The three transformer functions.                                        *)
(***************************************************************************)
\* Variant: the upper threshold compared with < instead of <=.
GetCurrentTemperatureFeel_Strict(parsed) ==
    IF parsed.Current.FeelsLike < 277 * KelvinUnit THEN "cold"
    ELSE IF parsed.Current.FeelsLike < 297 * KelvinUnit THEN "moderate"
    ELSE "hot"

GetCurrentTemperatureFeel(parsed) ==
    IF parsed.Current.FeelsLike < 277 * KelvinUnit THEN "cold"
    ELSE IF parsed.Current.FeelsLike <= 297 * KelvinUnit THEN "moderate"
    ELSE "hot"

RECURSIVE AppendMain(_, _)
\* The loop of GetCurrentConditions: results = append(results, condition.Main).
AppendMain(results, rest) ==
    IF rest = <<>> THEN results
    ELSE AppendMain(Append(results, Head(rest).Main), Tail(rest))

GetCurrentConditions(parsed) ==
    Slice(AppendMain(<<>>, parsed.Current.Weather.elems))

\* Variant: the decoded slice returned as it is, nil when absent upstream.
GetCurrentAlerts_Alias(parsed) == parsed.Alerts

GetCurrentAlerts(parsed) == Slice(<<>> \o parsed.Alerts.elems)

(***************************************************************************)
(* MyWeatherResponse and json.Marshal. A struct tag is the text after the  *)
(* field's type: key, value, and whether the value's closing quote is      *)
(* there. reflect.StructTag.Lookup finds no value in a tag that does not   *)
(* follow the key:"value" convention, and encoding/json then names the     *)
(* field by its Go name.                                                   *)
(***************************************************************************)
NoTag == [key |-> "", value |-> "", closed |-> FALSE]

Tag(key, value, closed) == [key |-> key, value |-> value, closed |-> closed]

MyWeatherResponseFields ==
    { [name |-> "Timestamp", tag |-> NoTag],
      [name |-> "CurrentTemperatureFeel",
       tag |-> Tag("json", "current_temperature_feel", FALSE)],
      [name |-> "CurrentConditions", tag |-> Tag("json", "current_conditions", TRUE)],
      [name |-> "CurrentAlerts", tag |-> Tag("json", "alerts", TRUE)] }

TagLookup(tag, key) ==
    IF tag.key = key /\ tag.closed
    THEN [ok |-> TRUE, value |-> tag.value]
    ELSE [ok |-> FALSE, value |-> ""]

JSONKey(field) ==
    LET t == TagLookup(field.tag, "json") IN
    IF t.ok /\ t.value # "" THEN t.value ELSE field.name

\* OpenWeatherOneCallAlert encoded by its (well-formed) field tags.
EncodeAlert(a) ==
    [sender_name |-> a.SenderName, event |-> a.Event, description |-> a.Description]

EncodeField(name, v) ==
    IF name = "CurrentAlerts"
    THEN [isNil |-> v.isNil, elems |-> [i \in 1..Len(v.elems) |-> EncodeAlert(v.elems[i])]]
    ELSE v

\* json.Marshal(MyWeatherResponse{...}): the JSON object, key to value.
Marshal(v) ==
    [k \in {JSONKey(f) : f \in MyWeatherResponseFields} |->
        LET f == CHOOSE g \in MyWeatherResponseFields : JSONKey(g) = k
        IN  EncodeField(f.name, v[f.name])]

(***************************************************************************)
(* The http.ResponseWriter of a request: the status of the first header    *)
(* write, the text written by http.Error or http.NotFound, and the JSON    *)
(* object written by w.Write(myRespBytes).                                 *)
(***************************************************************************)
NoJSON == [k \in {} |-> ""]

NoResponse == [status |-> 0, text |-> "", json |-> NoJSON]

StatusText(code) ==
    IF code = 400 THEN "Bad Request"
    ELSE IF code = 404 THEN "Not Found"
    ELSE IF code = 500 THEN "Internal Server Error"
    ELSE "OK"

\* http.Error(w, text, code): WriteHeader(code), which takes effect for the
\* first header write only, then the text and a newline.
HttpError(w, text, code) ==
    [status |-> IF w.status = 0 THEN code ELSE w.status,
     text |-> w.text \o text \o "\n",
     json |-> w.json]

\* w.Write(bytes): an implicit WriteHeader(200) when no header is written yet.
Write(w, bytes) ==
    [status |-> IF w.status = 0 THEN 200 ELSE w.status,
     text |-> w.text,
     json |-> bytes]

\* The deferred recover of latLonContext.
LatLonRecover(w) == HttpError(w, StatusText(400), 400)

\* Variant: the recovered error text sent to the client.
HandlerRecover_Leak(w, err) == HttpError(w, err, 500)

\* The deferred recover of the /weather handler (err goes to log.Println).
HandlerRecover(w, err) == HttpError(w, StatusText(500), 500)

\* chi's answer when no route matches the path: http.NotFound.
NotFound(w) == HttpError(w, "404 page not found", 404)

NoResp == [StatusCode |-> 0, readErr |-> FALSE, Body |-> [kind |-> "none"]]

NoFloat == [err |-> "", neg |-> FALSE, digits |-> <<>>, scale |-> 0]

NoCtx == [lat |-> NoFloat, lon |-> NoFloat]

ZeroReport ==
    [Timestamp |-> "", CurrentTemperatureFeel |-> "",
     CurrentConditions |-> NilSlice, CurrentAlerts |-> NilSlice]

\* Variant: resp kept in one package-level variable, the latest stored wins.
RespOf_Shared(rs, r) ==
    LET held == {q \in DOMAIN rs : rs[q].StatusCode # 0}
    IN  rs[CHOOSE q \in held : \A p \in held : q >= p]

\* The handler's local variable resp, one per invocation.
RespOf(rs, r) == rs[r]

\* The MyWeatherResponse literal of the handler.
BuildReport(parsed, offset) ==
    [Timestamp |-> FormatRFC3339(parsed.Current.DT, offset),
     CurrentTemperatureFeel |-> GetCurrentTemperatureFeel(parsed),
     CurrentConditions |-> GetCurrentConditions(parsed),
     CurrentAlerts |-> GetCurrentAlerts(parsed)]

(***************************************************************************)
(* Actions. Each is the code a goroutine runs between two blocking points  *)
(* (the arrival of the request, the return of http.Get, the return of      *)
(* ioutil.ReadAll).                                                        *)
(***************************************************************************)
Routed(req) == MatchesPattern(req.lat) /\ MatchesPattern(req.lon)

Finish(r, w, stage, details) ==
    /\ response' = [response EXCEPT ![r] = w]
    /\ statusWrites' = [statusWrites EXCEPT ![r] = @ + 1]
    /\ stages' = [stages EXCEPT ![r] = @ \o stage]
    /\ logged' = logged \cup details
    /\ pc' = [pc EXCEPT ![r] = "done"]

\* The path matches no route: the /weather pattern rejects a segment.
RouteMiss(r) ==
    /\ pc[r] = "received"
    /\ ~Routed(request[r])
    /\ Finish(r, NotFound(response[r]), <<"NotFound404">>, {})
    /\ UNCHANGED <<localOffset, request, upstream, ctx, resp, respParsed, report, calls>>

\* latLonContext panics on a ParseFloat error (lat first, then lon) and its
\* recover answers 400; next.ServeHTTP is not reached.
LatLonReject(r) ==
    /\ pc[r] = "received"
    /\ Routed(request[r])
    /\ ParseFloat(request[r].lat).err # "" \/ ParseFloat(request[r].lon).err # ""
    /\ Finish(r, LatLonRecover(response[r]), <<"Rejected400">>, {})
    /\ UNCHANGED <<localOffset, request, upstream, ctx, resp, respParsed, report, calls>>

\* latLonContext stores both values, logs the context and calls the handler,
\* which issues http.Get and waits.
LatLonAccept(r) ==
    /\ pc[r] = "received"
    /\ Routed(request[r])
    /\ ParseFloat(request[r].lat).err = "" /\ ParseFloat(request[r].lon).err = ""
    /\ ctx' = [ctx EXCEPT ![r] = [lat |-> ParseFloat(request[r].lat),
                                  lon |-> ParseFloat(request[r].lon)]]
    /\ logged' = logged \cup {"context"}
    /\ calls' = [calls EXCEPT ![r] = @ + 1]
    /\ stages' = [stages EXCEPT ![r] = @ \o <<"Validated">>]
    /\ pc' = [pc EXCEPT ![r] = "get"]
    /\ UNCHANGED <<localOffset, request, upstream, resp, respParsed, report,
                   response, statusWrites>>

\* http.Get returns an error: panicIfErr, the handler's recover answers 500.
GetFails(r) ==
    /\ pc[r] = "get"
    /\ upstream[r].netErr
    /\ Finish(r, HandlerRecover(response[r], "dial tcp: i/o timeout"),
              <<"Rejected500">>, {"dial tcp: i/o timeout"})
    /\ UNCHANGED <<localOffset, request, upstream, ctx, resp, respParsed, report, calls>>

\* http.Get returns a response, whatever its status; ReadAll starts.
GetReturns(r) ==
    /\ pc[r] = "get"
    /\ ~upstream[r].netErr
    /\ resp' = [resp EXCEPT ![r] = [StatusCode |-> upstream[r].status,
                                    readErr |-> upstream[r].readErr,
                                    Body |-> upstream[r].body]]
    /\ pc' = [pc EXCEPT ![r] = "read"]
    /\ UNCHANGED <<localOffset, request, upstream, ctx, respParsed, report, response,
                   calls, statusWrites, stages, logged>>

\* ioutil.ReadAll returns an error: panicIfErr, 500.
ReadFails(r) ==
    /\ pc[r] = "read"
    /\ RespOf(resp, r).readErr
    /\ Finish(r, HandlerRecover(response[r], "unexpected EOF"),
              <<"Rejected500">>, {"unexpected EOF"})
    /\ UNCHANGED <<localOffset, request, upstream, ctx, resp, respParsed, report, calls>>

\* The body is read and json.Unmarshal fails: panicIfErr, 500.
DecodeFails(r) ==
    /\ pc[r] = "read"
    /\ ~RespOf(resp, r).readErr
    /\ Unmarshal(RespOf(resp, r).Body).err # ""
    /\ Finish(r, HandlerRecover(response[r], Unmarshal(RespOf(resp, r).Body).err),
              <<"Rejected500">>, {Unmarshal(RespOf(resp, r).Body).err})
    /\ UNCHANGED <<localOffset, request, upstream, ctx, resp, respParsed, report, calls>>

\* The body is read and decoded; the report is built, marshalled and written.
Respond(r) ==
    /\ pc[r] = "read"
    /\ ~RespOf(resp, r).readErr
    /\ Unmarshal(RespOf(resp, r).Body).err = ""
    /\ LET parsed == Unmarshal(RespOf(resp, r).Body).val
           myResp == BuildReport(parsed, localOffset)
       IN  /\ respParsed' = [respParsed EXCEPT ![r] = parsed]
           /\ report' = [report EXCEPT ![r] = myResp]
           /\ Finish(r, Write(response[r], Marshal(myResp)),
                     <<"UpstreamSucceeded", "Responded">>, {})
    /\ UNCHANGED <<localOffset, request, upstream, ctx, resp, calls>>

Next ==
    \/ \E r \in DOMAIN pc : RouteMiss(r)
    \/ \E r \in DOMAIN pc : LatLonReject(r)
    \/ \E r \in DOMAIN pc : LatLonAccept(r)
    \/ \E r \in DOMAIN pc : GetFails(r)
    \/ \E r \in DOMAIN pc : GetReturns(r)
    \/ \E r \in DOMAIN pc : ReadFails(r)
    \/ \E r \in DOMAIN pc : DecodeFails(r)
    \/ \E r \in DOMAIN pc : Respond(r)

(***************************************************************************)
(* The inputs: path segments, upstream replies, and the zone of the host.  *)
(***************************************************************************)
Segments == SeqsUpTo(Alphabet, MaxSegLen)

FewSegments == {<<"7">>, <<"B">>, <<"a">>}

FewPaths ==
    { [lat |-> <<"7", ".", "7">>, lon |-> <<"-", "7">>],
      [lat |-> <<"B">>, lon |-> <<"7">>],
      [lat |-> <<"7">>, lon |-> <<"a">>] }

\* UTC, US Central daylight time, Central European time.
LocalOffsets == {0, 0 - 18000, 3600}

DtValues == {Absent, Present(1684000000), Present(1685620800)}

\* JSON numbers around the two thresholds, between and on float32 values.
FeelsLikeValues ==
    {Absent} \cup
    {Present(v) : v \in {260 * KelvinUnit, 300 * KelvinUnit}
                        \cup {277 * KelvinUnit + d : d \in {0 - 4, 0 - 1, 0, 1, 4}}
                        \cup {297 * KelvinUnit + d : d \in {0 - 4, 0 - 1, 0, 2, 3, 4}}}

Conditions == {[main |-> "Clear"], [main |-> "Clouds"]}

Alerts ==
    { [sender_name |-> "NWS", event |-> "Heat Advisory", description |-> "Stay indoors"],
      [sender_name |-> "EC", event |-> "Flood Watch", description |-> "Avoid rivers"] }

WeatherValues == {AbsentList} \cup {PresentList(s) : s \in SeqsUpTo(Conditions, MaxLen)}

AlertValues == {AbsentList} \cup {PresentList(s) : s \in SeqsUpTo(Alerts, MaxLen)}

Object(dt, feels, weather, alerts, extra) ==
    [kind |-> "object", dt |-> dt, feels_like |-> feels, weather |-> weather,
     alerts |-> alerts, extra |-> extra]

Reply(status, body) ==
    [netErr |-> FALSE, status |-> status, readErr |-> FALSE, body |-> body]

NetworkFailure ==
    [netErr |-> TRUE, status |-> 0, readErr |-> FALSE, body |-> [kind |-> "none"]]

ReadFailure ==
    [netErr |-> FALSE, status |-> 200, readErr |-> TRUE, body |-> [kind |-> "none"]]

Statuses == {200, 401}

FailingReplies ==
    {NetworkFailure, ReadFailure}
    \cup {Reply(st, [kind |-> k]) : st \in Statuses, k \in {"garbage", "mistyped"}}

SampleObject ==
    Object(Present(1684000000), Present(300 * KelvinUnit),
           PresentList(<<[main |-> "Clear"]>>), PresentList(<<>>), FALSE)

ObjectReplies ==
    {Reply(st, Object(dt, f, PresentList(<<[main |-> "Clear"]>>), AbsentList, x)) :
        st \in Statuses, dt \in DtValues, f \in FeelsLikeValues, x \in BOOLEAN}
    \cup {Reply(st, Object(Present(1684000000), Absent, w, a, FALSE)) :
        st \in Statuses, w \in WeatherValues, a \in AlertValues}

Replies == FailingReplies \cup ObjectReplies

FewReplies ==
    {NetworkFailure, Reply(200, SampleObject),
     Reply(401, Object(Absent, Absent, AbsentList, AbsentList, TRUE))}

Start(reqs, ups, offset) ==
    /\ localOffset = offset
    /\ request = reqs
    /\ upstream = ups
    /\ pc = [r \in DOMAIN reqs |-> "received"]
    /\ ctx = [r \in DOMAIN reqs |-> NoCtx]
    /\ resp = [r \in DOMAIN reqs |-> NoResp]
    /\ respParsed = [r \in DOMAIN reqs |-> ZeroResponse]
    /\ report = [r \in DOMAIN reqs |-> ZeroReport]
    /\ response = [r \in DOMAIN reqs |-> NoResponse]
    /\ calls = [r \in DOMAIN reqs |-> 0]
    /\ statusWrites = [r \in DOMAIN reqs |-> 0]
    /\ stages = [r \in DOMAIN reqs |-> <<"Received">>]
    /\ logged = {}

\* One request, every path segment up to MaxSegLen in one of the two places.
InitPaths ==
    \E seg \in Segments, other \in FewSegments, swap \in BOOLEAN,
       up \in FewReplies, offset \in LocalOffsets :
        Start([r \in {1} |-> IF swap THEN [lat |-> other, lon |-> seg]
                                     ELSE [lat |-> seg, lon |-> other]],
              [r \in {1} |-> up], offset)

\* One request with a valid path, every upstream reply.
InitReplies ==
    \E up \in Replies, offset \in LocalOffsets :
        Start([r \in {1} |-> [lat |-> <<"7", ".", "7">>, lon |-> <<"-", "7">>]],
              [r \in {1} |-> up], offset)

\* NumReqs requests in flight together.
InitConcurrent ==
    \E reqs \in [1..NumReqs -> FewPaths], ups \in [1..NumReqs -> FewReplies],
       offset \in LocalOffsets :
        Start(reqs, ups, offset)

Init == InitPaths \/ InitReplies \/ InitConcurrent

Spec == Init /\ [][Next]_vars

(***************************************************************************)
(* Vocabulary of the properties.                                           *)
(***************************************************************************)
Reqs == DOMAIN pc

Done(r) == pc[r] = "done"

Answered200(r) == Done(r) /\ response[r].status = 200

\* The request was validated and its upstream call was issued.
Called(r) == calls[r] = 1

GenericText500 == "Internal Server Error\n"

\* The detail of the failure of an upstream reply, as the error value says it.
Detail(up) ==
    IF up.netErr THEN "dial tcp: i/o timeout"
    ELSE IF up.readErr THEN "unexpected EOF"
    ELSE "invalid character '<' looking for beginning of value"

UpstreamFailed(up) ==
    up.netErr \/ up.readErr \/ (~up.netErr /\ ~up.readErr /\ up.body.kind = "garbage")

DecodableObject(up) == ~up.netErr /\ ~up.readErr /\ up.body.kind = "object"

\* The epoch second a reply's dt stands for (absent: the zero value).
DtOf(up) == IF up.body.dt.present THEN up.body.dt.val ELSE 0

\* RFC 3339 renderings computed outside the model (date -d @sec), by zone.
RenderedLocal(sec, offset) ==
    IF sec = 0 THEN
        IF offset = 0 THEN "1970-01-01T00:00:00Z"
        ELSE IF offset = 3600 THEN "1970-01-01T01:00:00+01:00"
        ELSE "1969-12-31T19:00:00-05:00"
    ELSE IF sec = 1684000000 THEN
        IF offset = 0 THEN "2023-05-13T17:46:40Z"
        ELSE IF offset = 3600 THEN "2023-05-13T18:46:40+01:00"
        ELSE "2023-05-13T12:46:40-05:00"
    ELSE
        IF offset = 0 THEN "2023-06-01T12:00:00Z"
        ELSE IF offset = 3600 THEN "2023-06-01T13:00:00+01:00"
        ELSE "2023-06-01T07:00:00-05:00"

\* The UTC renderings the specification states (its example for 1684000000).
StatedUTC(sec) ==
    IF sec = 0 THEN "1970-01-01T00:00:00Z"
    ELSE IF sec = 1684000000 THEN "2023-05-13T16:26:40Z"
    ELSE "2023-06-01T12:00:00Z"

\* The handler as a function of one request's own inputs, run alone.
Handle(req, up, offset) ==
    IF ~Routed(req) THEN NotFound(NoResponse)
    ELSE IF ParseFloat(req.lat).err # "" \/ ParseFloat(req.lon).err # ""
    THEN LatLonRecover(NoResponse)
    ELSE IF up.netErr THEN HandlerRecover(NoResponse, Detail(up))
    ELSE IF up.readErr THEN HandlerRecover(NoResponse, Detail(up))
    ELSE IF Unmarshal(up.body).err # ""
    THEN HandlerRecover(NoResponse, Unmarshal(up.body).err)
    ELSE Write(NoResponse, Marshal(BuildReport(Unmarshal(up.body).val, offset)))

(***************************************************************************)
(* C1. GetCurrentTemperatureFeel is a total three-way classification of    *)
(* the decoded feels-like value v (the float32 field of the snapshot):     *)
(* "cold" exactly when v < 277.0, "moderate" exactly when                  *)
(* 277.0 <= v <= 297.0, "hot" exactly when v > 297.0, whatever the other   *)
(* fields of the upstream reply are.                                       *)
(***************************************************************************)
FeelIsThreeWayClassification ==
    \A r \in Reqs :
        Answered200(r) =>
            LET v == respParsed[r].Current.FeelsLike
                feel == report[r].CurrentTemperatureFeel
            IN  /\ feel \in {"cold", "moderate", "hot"}
                /\ feel = "cold" <=> v < 277 * KelvinUnit
                /\ feel = "moderate" <=> (277 * KelvinUnit <= v /\ v <= 297 * KelvinUnit)
                /\ feel = "hot" <=> v > 297 * KelvinUnit

\* A report was answered for a value exactly on the upper threshold.
FeelOnUpperBoundary ==
    \E r \in Reqs :
        /\ Answered200(r)
        /\ respParsed[r].Current.FeelsLike = 297 * KelvinUnit
        /\ report[r].CurrentTemperatureFeel = "moderate"

(***************************************************************************)
(* C2 (as stated). Every request whose lat or lon segment is not a signed  *)
(* decimal number is answered 400, and no upstream call is made for it.    *)
(***************************************************************************)
MalformedSegmentIs400 ==
    \A r \in Reqs :
        (Done(r) /\ ~(MatchesPattern(request[r].lat) /\ MatchesPattern(request[r].lon)))
            => (response[r].status = 400 /\ calls[r] = 0)

(***************************************************************************)
(* C3. A validated request whose upstream call fails at the network level, *)
(* whose body read fails or whose body is no JSON is answered 500 with the *)
(* generic status text only: no report, and not the error's detail, which  *)
(* is logged.                                                              *)
(***************************************************************************)
UpstreamFailureIsGeneric500 ==
    \A r \in Reqs :
        (Done(r) /\ Called(r) /\ UpstreamFailed(upstream[r])) =>
            /\ response[r].status = 500
            /\ response[r].text = GenericText500
            /\ response[r].text # Detail(upstream[r]) \o "\n"
            /\ response[r].json = NoJSON
            /\ Detail(upstream[r]) \in logged

\* A request was answered after its upstream call failed on the network.
NetworkFailureAnswered ==
    \E r \in Reqs :
        Done(r) /\ Called(r) /\ upstream[r].netErr /\ response[r].status = 500

(***************************************************************************)
(* C4 (as stated). A validated request whose upstream reply has a status   *)
(* outside 2xx is answered 500 with no report.                             *)
(***************************************************************************)
Non2xxReplyIs500 ==
    \A r \in Reqs :
        (Done(r) /\ Called(r) /\ ~upstream[r].netErr
            /\ upstream[r].status \notin 200..299)
            => (response[r].status = 500 /\ response[r].json = NoJSON)

(***************************************************************************)
(* C5 (as stated). Every 200 response is a JSON object whose fields are    *)
(* named exactly Timestamp, current_temperature_feel, current_conditions   *)
(* and alerts, carrying the values of the report.                          *)
(***************************************************************************)
ResponseFieldNames ==
    \A r \in Reqs :
        Answered200(r) =>
            /\ DOMAIN response[r].json =
                   {"Timestamp", "current_temperature_feel", "current_conditions", "alerts"}
            /\ response[r].json["Timestamp"] = report[r].Timestamp
            /\ response[r].json["current_temperature_feel"]
                   = report[r].CurrentTemperatureFeel
            /\ response[r].json["current_conditions"] = report[r].CurrentConditions

(***************************************************************************)
(* C6 (as stated). The Timestamp is the RFC 3339 rendering of observedAt   *)
(* in UTC, 1684000000 giving 2023-05-13T16:26:40Z, whatever the local zone.*)
(***************************************************************************)
TimestampIsStatedUTC ==
    \A r \in Reqs :
        Answered200(r) => report[r].Timestamp = StatedUTC(DtOf(upstream[r]))

(***************************************************************************)
(* C6 (amended). The Timestamp is a function of observedAt and of the      *)
(* process's local zone only: the RFC 3339 rendering of that instant in    *)
(* time.Local, with suffix Z only for a zero offset; on a UTC host         *)
(* 1684000000 gives 2023-05-13T17:46:40Z.                                  *)
(***************************************************************************)
TimestampIsLocalRendering ==
    \A r \in Reqs :
        Answered200(r) =>
            /\ report[r].Timestamp = RenderedLocal(DtOf(upstream[r]), localOffset)
            /\ response[r].json["Timestamp"] = report[r].Timestamp

\* A report for 1684000000 was answered by a host west of UTC.
TimestampWestOfUTC ==
    \E r \in Reqs :
        /\ Answered200(r)
        /\ localOffset < 0
        /\ DtOf(upstream[r]) = 1684000000
        /\ report[r].Timestamp = "2023-05-13T12:46:40-05:00"

(***************************************************************************)
(* C7. The conditions and the alerts of a report are positional copies of  *)
(* the upstream sequences: same length, the i-th label and the i-th        *)
(* sender/event/description triple unchanged; an empty or absent upstream  *)
(* sequence gives an empty sequence, never null.                           *)
(***************************************************************************)
PositionalCopies ==
    \A r \in Reqs :
        Answered200(r) =>
            LET body == upstream[r].body
                conds == report[r].CurrentConditions
                alerts == report[r].CurrentAlerts
            IN  /\ ~conds.isNil
                /\ Len(conds.elems) = Len(body.weather.elems)
                /\ \A i \in 1..Len(conds.elems) :
                       conds.elems[i] = body.weather.elems[i].main
                /\ ~alerts.isNil
                /\ Len(alerts.elems) = Len(body.alerts.elems)
                /\ \A i \in 1..Len(alerts.elems) :
                       /\ alerts.elems[i].SenderName = body.alerts.elems[i].sender_name
                       /\ alerts.elems[i].Event = body.alerts.elems[i].event
                       /\ alerts.elems[i].Description = body.alerts.elems[i].description
                /\ response[r].json["current_conditions"] = conds
                /\ ~response[r].json["alerts"].isNil
                /\ response[r].json["alerts"].elems = body.alerts.elems

\* A report with two different conditions in upstream order and, the alerts
\* being absent upstream, an empty alert list.
TwoConditionsNoAlerts ==
    \E r \in Reqs :
        /\ Answered200(r)
        /\ ~upstream[r].body.alerts.present
        /\ report[r].CurrentConditions = Slice(<<"Clouds", "Clear">>)
        /\ report[r].CurrentAlerts = Slice(<<>>)

(***************************************************************************)
(* C8 (as stated). Every finished request ends in exactly one of           *)
(* Rejected(400), Rejected(500) and Responded(200), with one status        *)
(* written; a 200 is written only after Received, Validated,               *)
(* UpstreamSucceeded and Responded in that order; no request carries both  *)
(* a report and an error status.                                           *)
(***************************************************************************)
RequestStateMachine ==
    \A r \in Reqs :
        Done(r) =>
            /\ response[r].status \in {400, 500, 200}
            /\ statusWrites[r] = 1
            /\ response[r].status = 200 =>
                   stages[r] = <<"Received", "Validated", "UpstreamSucceeded", "Responded">>
            /\ response[r].status # 200 => response[r].json = NoJSON

(***************************************************************************)
(* C9. Whatever the interleaving of the requests in flight, a request      *)
(* issues at most one upstream call (none when it is rejected before the   *)
(* handler, no second one after a failure), and its response is the one    *)
(* its own path and its own upstream reply give when it runs alone.        *)
(***************************************************************************)
RequestsAreIsolated ==
    \A r \in Reqs :
        /\ calls[r] \in {0, 1}
        /\ pc[r] = "received" => calls[r] = 0
        /\ Done(r) =>
               /\ response[r] = Handle(request[r], upstream[r], localOffset)
               /\ response[r].status \in {400, 404} => calls[r] = 0

\* Two requests in flight together got different replies and both finished,
\* one with a report and one with an error.
TwoRequestsFinishedApart ==
    \E r, q \in Reqs :
        /\ r # q
        /\ Answered200(r)
        /\ Done(q) /\ Called(q) /\ ~upstream[q].netErr
        /\ upstream[q] # upstream[r]

(***************************************************************************)
(* C10. A validated request whose upstream body is a decodable JSON object *)
(* is answered 200 whatever fields are unknown or absent: an absent dt     *)
(* gives the epoch-0 timestamp, an absent feels_like the classification of *)
(* 0 ("cold"), absent weather and alerts give empty sequences; fields      *)
(* present are used.                                                       *)
(***************************************************************************)
PermissiveDecoding ==
    \A r \in Reqs :
        (Done(r) /\ Called(r) /\ DecodableObject(upstream[r])) =>
            LET body == upstream[r].body IN
            /\ response[r].status = 200
            /\ ~body.dt.present => report[r].Timestamp = RenderedLocal(0, localOffset)
            /\ body.dt.present => respParsed[r].Current.DT = body.dt.val
            /\ ~body.feels_like.present => report[r].CurrentTemperatureFeel = "cold"
            /\ ~body.weather.present => report[r].CurrentConditions = Slice(<<>>)
            /\ ~body.alerts.present => report[r].CurrentAlerts = Slice(<<>>)

\* A body with unknown fields and none of the known ones was answered 200.
EmptyObjectAnswered ==
    \E r \in Reqs :
        /\ Answered200(r)
        /\ upstream[r].body.extra
        /\ ~upstream[r].body.dt.present /\ ~upstream[r].body.feels_like.present
        /\ ~upstream[r].body.weather.present /\ ~upstream[r].body.alerts.present
        /\ report[r].CurrentTemperatureFeel = "cold"
====
